---- MODULE Spec2Model ----
(***************************************************************************)
(* Pico RLE Image (.pri) codec of the Tufty badge:                         *)
(*   - the encoder of convertimg.py (palette write, row loop, write_span,  *)
(*     write_unspan),                                                      *)
(*   - the round-trip decoder of convertimg.py,                            *)
(*   - the device decoder of badge_template.py (draw_pri_image,            *)
(*     blit_from_io_spans).                                                *)
(* Sequences are 1-based: pixel (x, y) of the source is im.px[y+1][x+1],   *)
(* byte offset k of a file is element k+1 of its sequence.                 *)
(* The device decoder's 320 and 240 are im.width and im.height here: the   *)
(* format has no size header, "images of other sizes are possible if the   *)
(* decoder is told the same size".                                         *)
(***************************************************************************)
EXTENDS Integers, Sequences, FiniteSets, TLC

\* ------------------------------------------------------------------ bounds
\* Every image of at most MaxPixels pixels (any shape) over PixelVals is an input.
MaxPixels == 6
\* Images with one out-of-range pixel have at most MaxBadPixels pixels.
MaxBadPixels == 4
\* The decoder alone is fed every row-data byte string of at most MaxRowBytes bytes.
MaxRowBytes == 4
\* ... for images of at most MaxDecPixels pixels.
MaxDecPixels == 3
\* The badge's main loop is followed for MaxLoops iterations.
MaxLoops == 3
\* ... for MaxQuietLoops iterations when the badge is left alone in the dark,
MaxQuietLoops == 275
\* ... for MaxHeldLoops iterations when the backlight cap is held down.
MaxHeldLoops == 40

\* ------------------------------------------------------- program constants
\* Longest run / literal one record can carry (one length byte, 0 is the escape).
MAX_SPAN == 255
\* "assert len(pal) == 256 * 3"
PAL_LEN == 256 * 3
\* "span_pixel = -1": the no-span sentinel of the row loop.
NO_PIXEL == -1

Byte == 0..255

\* badge_template.py. Backlight levels are in thousandths of full brightness,
\* voltages in millivolts.
BACKLIGHT_LOW == 375
BACKLIGHT_HIGH == 1000
LUMINANCE_LOW == 256
LUMINANCE_HIGH == 4096
LOW_BATTERY_VOLTAGE == 3300
RECOVERED_BATTERY_VOLTAGE == 3500
\* The largest read_u16() value: the luminance of the C+up debug key.
U16_MAX == 65535
REACT_BRIGHT_SET == 32768
REACT_BRIGHT_RESET == 16384
PALCYCLE_FIRST == 128
PALCYCLE_LAST == 255

\* ------------------------------------------------------------------ inputs
PixelVals == {0, 255}
BadPixelVals == {-1, 256}
DecBytes == {0, 1, 2, 3}
\* Widths around the one-byte span limit, and the device's own width.
WideWidths == {254, 255, 256, 320, 510}

Shapes(n) == {wh \in (1..n) \X (1..n) : wh[1] * wh[2] <= n}

MkImage(w, h, p) == [width |-> w, height |-> h, px |-> p]

SmallImages ==
    UNION {{MkImage(wh[1], wh[2], p) : p \in [1..wh[2] -> [1..wh[1] -> PixelVals]]}
           : wh \in Shapes(MaxPixels)}

\* The scenario rows of the format description.
ScenarioImages ==
    {MkImage(4, 1, <<(<<5, 5, 5, 9>>)>>), MkImage(3, 1, <<(<<1, 2, 3>>)>>),
     MkImage(3, 2, <<(<<1, 2, 3>>), (<<3, 3, 0>>)>>)}

\* A valid small image with one pixel replaced by an out-of-range value.
BadImages ==
    UNION {{MkImage(wh[1], wh[2], [p EXCEPT ![c[2]][c[1]] = c[3]]) :
              p \in [1..wh[2] -> [1..wh[1] -> PixelVals]],
              c \in (1..wh[1]) \X (1..wh[2]) \X BadPixelVals}
           : wh \in Shapes(MaxBadPixels)}

Uniform(n, v) == [i \in 1..n |-> v]
Noisy(n, a, b) == [i \in 1..n |-> IF i % 2 = 1 THEN a ELSE b]

\* One row: a short lead-in, a long uniform or alternating body, a short tail.
WideRows ==
    {pre \o body \o suf :
        pre \in {<<>>, <<7>>},
        suf \in {<<>>, <<9>>},
        body \in UNION {{Uniform(n, 255), Noisy(n, 0, 1)} : n \in WideWidths}}

WideImages == {MkImage(Len(r), 1, <<r>>) : r \in WideRows}
                 \cup {MkImage(256, 2, <<Noisy(256, 3, 4), Uniform(256, 4)>>)}

Images == SmallImages \cup ScenarioImages \cup BadImages \cup WideImages

\* im.getpalette(): a flat list of R, G, B values.
Palette(k, n) == [i \in 1..n |-> (i * k + 1) % 256]

\* The images with the palettes they come with; two palettes are not of
\* 256 entries.
Inputs ==
    (Images \X {Palette(7, PAL_LEN)})
        \cup (ScenarioImages \X {Palette(11, PAL_LEN), Palette(7, PAL_LEN - 3),
                                 Palette(7, PAL_LEN + 3)})

VARIABLES
    im,                 \* the opened image: width, height, pixels
    pal,                \* im.getpalette()
    GENERATE_UNSPANS,   \* not args.no_generate_unspans
    enc_pc,             \* "start", "palette", "row", "done", "failed"
    outf,               \* bytes written to the .pri file so far
    x, y,               \* the encoder's loop indices
    span_pixel, span_count, unspan,
    row_ends,           \* history: Len(outf) at the end of each finished row
    dec_pc,             \* "idle", "rows", "done", "failed"
    dec_kind,           \* "roundtrip" (convertimg.py) or "device" (badge_template.py)
    pos,                \* read offset of handle / raw in the file
    span_data,          \* bytearray(2): the record header buffer
    dec_x, dec_y,       \* the decoder's column cursor and row
    canvas,             \* the pixels of the target (new image / display)
    palette,            \* the palette handed to putpalette / set_palette
    set_palette_calls,  \* history: number of putpalette / set_palette calls
    short_read,         \* history: a header or literal read came back short
    clipped,            \* history: a paint call reached a column >= width
    painted,            \* history: how many times each pixel has been painted
    badge_pc,           \* "off", "startup", then the main loop's next step
    stats,              \* the stats dict
    current_mode,       \* index into badge_modes
    pressed,            \* the buttons found pressed by the latest is_pressed reads
    measured,           \* history: the branch the latest measure_battery took
    set_backlight_arg,  \* history: the latest value given to display.set_backlight
    calls,              \* history: the mode functions called, in order
    loops,              \* history: main-loop iterations begun
    env,                \* what the badge's surroundings do, one of Envs
    bmode_fursona_current_face,     \* "None" for None
    bmode_fursona_ticks_until_turn,
    bmode_fursona_is_bright,
    bmode_fursona_palette,          \* <<>> for None
    draws,              \* history: the files given to draw_pri_image, in order
    loaded,             \* history: the palette the latest fursona image came with
    cycles              \* history: fursona ticks since then that loaded no image

enc_vars == <<im, pal, GENERATE_UNSPANS, enc_pc, outf, x, y,
              span_pixel, span_count, unspan, row_ends>>
dec_vars == <<dec_pc, dec_kind, pos, span_data, dec_x, dec_y, canvas, palette,
              set_palette_calls, short_read, clipped, painted>>
fursona_vars == <<bmode_fursona_current_face, bmode_fursona_ticks_until_turn,
                  bmode_fursona_is_bright, bmode_fursona_palette,
                  draws, loaded, cycles>>
badge_vars == <<badge_pc, stats, current_mode, pressed, measured,
                set_backlight_arg, calls, loops, env, fursona_vars>>
vars == <<enc_vars, dec_vars, badge_vars>>

\* im.getpixel((x, y))
getpixel(px, py) == im.px[py + 1][px + 1]

\* ------------------------------------------------------------- file writes
\* A file being written: the bytes so far, and whether an exception is
\* propagating (every later statement is then skipped).
File(bytes, ok) == [out |-> bytes, ok |-> ok]

\* v.to_bytes(length=1, byteorder='big') raises OverflowError unless 0 <= v <= 255.
FirstBad(vals) ==
    IF \A i \in 1..Len(vals) : vals[i] \in Byte THEN 0
    ELSE CHOOSE i \in 1..Len(vals) :
            /\ vals[i] \notin Byte
            /\ \A j \in 1..(i - 1) : vals[j] \in Byte

\* Mutant: values are truncated to their low byte instead of being refused.
Write_wrap(f, vals) ==
    IF ~f.ok THEN f
    ELSE File(f.out \o [i \in 1..Len(vals) |-> vals[i] % 256], TRUE)

\* outf.write(v.to_bytes(...)) for each v of vals in turn, up to the first
\* value that does not fit a byte.
Write(f, vals) ==
    IF ~f.ok THEN f
    ELSE LET b == FirstBad(vals) IN
         IF b = 0 THEN File(f.out \o vals, TRUE)
         ELSE File(f.out \o SubSeq(vals, 1, b - 1), FALSE)

\* The encoder's row state while a statement sequence runs.
Enc(f, u) == [out |-> f.out, ok |-> f.ok, unspan |-> u]

\* Mutant: a one-pixel unspan is written as a literal record too.
write_unspan_literal(e) ==
    IF ~e.ok \/ Len(e.unspan) = 0 THEN e
    ELSE LET f == Write(e, <<0, Len(e.unspan)>> \o e.unspan)
         IN  Enc(f, IF f.ok THEN <<>> ELSE e.unspan)

write_unspan(e) ==
    IF ~e.ok \/ Len(e.unspan) = 0 THEN e
    ELSE LET f == IF Len(e.unspan) = 1
                  THEN Write(e, <<1, e.unspan[1]>>)
                  ELSE Write(e, <<0, Len(e.unspan)>> \o e.unspan)
         IN  Enc(f, IF f.ok THEN <<>> ELSE e.unspan)

\* Mutant: count and pixel of a genuine span are written in the wrong order.
write_span_swapped(e, pixel, count, gen) ==
    IF ~e.ok THEN e
    ELSE IF count = 0 THEN write_unspan(e)
    ELSE IF gen /\ count = 1
         THEN LET e1 == Enc(e, Append(e.unspan, pixel)) IN
              IF Len(e1.unspan) = MAX_SPAN THEN write_unspan(e1) ELSE e1
    ELSE LET e1 == write_unspan(e) IN
         Enc(Write(e1, <<pixel, count>>), e1.unspan)

\* Mutant: a span of one pixel is buffered whatever the policy says.
write_span_nogen(e, pixel, count, gen) ==
    IF ~e.ok THEN e
    ELSE IF count = 0 THEN write_unspan(e)
    ELSE IF count = 1
         THEN LET e1 == Enc(e, Append(e.unspan, pixel)) IN
              IF Len(e1.unspan) = MAX_SPAN THEN write_unspan(e1) ELSE e1
    ELSE LET e1 == write_unspan(e) IN
         Enc(Write(e1, <<count, pixel>>), e1.unspan)

\* Mutant: every buffered pixel is flushed at once.
write_span_eager(e, pixel, count, gen) ==
    IF ~e.ok THEN e
    ELSE IF count = 0 THEN write_unspan(e)
    ELSE IF gen /\ count = 1
         THEN write_unspan(Enc(e, Append(e.unspan, pixel)))
    ELSE LET e1 == write_unspan(e) IN
         Enc(Write(e1, <<count, pixel>>), e1.unspan)

\* Mutant: a genuine span is written without flushing the pending unspan first.
write_span_noflush(e, pixel, count, gen) ==
    IF ~e.ok THEN e
    ELSE IF count = 0 THEN write_unspan(e)
    ELSE IF gen /\ count = 1
         THEN LET e1 == Enc(e, Append(e.unspan, pixel)) IN
              IF Len(e1.unspan) = MAX_SPAN THEN write_unspan(e1) ELSE e1
    ELSE Enc(Write(e, <<count, pixel>>), e.unspan)

\* Mutant: the unspan is flushed one entry too late.
write_span_late(e, pixel, count, gen) ==
    IF ~e.ok THEN e
    ELSE IF count = 0 THEN write_unspan(e)
    ELSE IF gen /\ count = 1
         THEN LET e1 == Enc(e, Append(e.unspan, pixel)) IN
              IF Len(e1.unspan) = MAX_SPAN + 1 THEN write_unspan(e1) ELSE e1
    ELSE LET e1 == write_unspan(e) IN
         Enc(Write(e1, <<count, pixel>>), e1.unspan)

write_span(e, pixel, count, gen) ==
    IF ~e.ok THEN e
    ELSE IF count = 0 THEN write_unspan(e)
    ELSE IF gen /\ count = 1
         THEN LET e1 == Enc(e, Append(e.unspan, pixel)) IN
              IF Len(e1.unspan) = MAX_SPAN THEN write_unspan(e1) ELSE e1
    ELSE LET e1 == write_unspan(e) IN
         Enc(Write(e1, <<count, pixel>>), e1.unspan)

\* The decoder before it is started.
DecIdle ==
    /\ dec_pc = "idle" /\ dec_kind = "none"
    /\ pos = 0 /\ span_data = <<0, 0>>
    /\ dec_x = 0 /\ dec_y = 0
    /\ canvas = <<>> /\ palette = <<>>
    /\ set_palette_calls = 0
    /\ short_read = FALSE /\ clipped = FALSE
    /\ painted = <<>>

\* The module-level state of badge_template.py before its first statement.
stats_initial ==
    [vbat |-> 0, vbat_low |-> 100000, vbat_high |-> 0,
     low_battery |-> FALSE, usb |-> FALSE,
     lum |-> 0, lum_low |-> U16_MAX, lum_high |-> 0,
     backlight |-> 0, backlight_cap |-> BACKLIGHT_HIGH]

BadgeLoaded ==
    /\ stats = stats_initial
    /\ current_mode = 0
    /\ pressed = {}
    /\ measured = "none"
    /\ set_backlight_arg = 0
    /\ calls = <<>>
    /\ loops = 0
    /\ bmode_fursona_current_face = "None"
    /\ bmode_fursona_ticks_until_turn = 10 * 25
    /\ bmode_fursona_is_bright = FALSE
    /\ bmode_fursona_palette = <<>>
    /\ draws = <<>> /\ loaded = <<>> /\ cycles = 0

\* ----------------------------------------------------------------- encoder
Init ==
    /\ \E in \in Inputs : im = in[1] /\ pal = in[2]
    /\ GENERATE_UNSPANS \in BOOLEAN
    /\ enc_pc = "start"
    /\ outf = <<>>
    /\ x = 0 /\ y = 0
    /\ span_pixel = NO_PIXEL /\ span_count = 0 /\ unspan = <<>>
    /\ row_ends = <<>>
    /\ DecIdle
    /\ badge_pc = "off" /\ env = "quiet" /\ BadgeLoaded

\* Mutant: only a palette that is too long is refused.
CheckPalette_atmost ==
    /\ enc_pc = "start"
    /\ enc_pc' = IF Len(pal) <= PAL_LEN THEN "palette" ELSE "failed"
    /\ UNCHANGED <<im, pal, GENERATE_UNSPANS, outf, x, y,
                   span_pixel, span_count, unspan, row_ends, dec_vars, badge_vars>>

\* "assert len(pal) == 256 * 3", then open(outfile, "wb")
CheckPalette ==
    /\ enc_pc = "start"
    /\ enc_pc' = IF Len(pal) = PAL_LEN THEN "palette" ELSE "failed"
    /\ UNCHANGED <<im, pal, GENERATE_UNSPANS, outf, x, y,
                   span_pixel, span_count, unspan, row_ends, dec_vars, badge_vars>>

\* Mutant: the palette loop stops one value early.
WritePalette_short ==
    /\ enc_pc = "palette"
    /\ LET f == Write(File(outf, TRUE), SubSeq(pal, 1, Len(pal) - 1)) IN
        /\ outf' = f.out
        /\ enc_pc' = IF f.ok THEN "row" ELSE "failed"
    /\ x' = 0 /\ y' = 0
    /\ span_pixel' = NO_PIXEL /\ span_count' = 0 /\ unspan' = <<>>
    /\ UNCHANGED <<im, pal, GENERATE_UNSPANS, row_ends, dec_vars, badge_vars>>

\* "for i, _ in enumerate(pal): outf.write(pal[i].to_bytes(...))"
\* and the entry into the first row.
WritePalette ==
    /\ enc_pc = "palette"
    /\ LET f == Write(File(outf, TRUE), pal) IN
        /\ outf' = f.out
        /\ enc_pc' = IF f.ok THEN "row" ELSE "failed"
    /\ x' = 0 /\ y' = 0
    /\ span_pixel' = NO_PIXEL /\ span_count' = 0 /\ unspan' = <<>>
    /\ UNCHANGED <<im, pal, GENERATE_UNSPANS, row_ends, dec_vars, badge_vars>>

\* One iteration of "for x in range(0, im.width)".
EncodePixel ==
    /\ enc_pc = "row"
    /\ x < im.width
    /\ LET pixel == getpixel(x, y)
           e0 == Enc(File(outf, TRUE), unspan)
       IN
       IF pixel = span_pixel
       THEN \* Extend the existing span.
            IF span_count + 1 = MAX_SPAN
            THEN LET e == write_span(e0, span_pixel, span_count + 1, GENERATE_UNSPANS) IN
                 /\ outf' = e.out /\ unspan' = e.unspan
                 /\ enc_pc' = IF e.ok THEN "row" ELSE "failed"
                 /\ span_pixel' = IF e.ok THEN NO_PIXEL ELSE span_pixel
                 /\ span_count' = IF e.ok THEN 0 ELSE span_count + 1
            ELSE /\ span_count' = span_count + 1
                 /\ UNCHANGED <<outf, unspan, enc_pc, span_pixel>>
       ELSE \* Commit the previous span, and start a new one of this.
            LET e == write_span(e0, span_pixel, span_count, GENERATE_UNSPANS) IN
            /\ outf' = e.out /\ unspan' = e.unspan
            /\ enc_pc' = IF e.ok THEN "row" ELSE "failed"
            /\ span_pixel' = IF e.ok THEN pixel ELSE span_pixel
            /\ span_count' = IF e.ok THEN 1 ELSE span_count
    /\ x' = IF enc_pc' = "row" THEN x + 1 ELSE x
    /\ UNCHANGED <<im, pal, GENERATE_UNSPANS, y, row_ends, dec_vars, badge_vars>>

\* Mutant: the row ends without the final write_unspan().
EndRow_noflush ==
    /\ enc_pc = "row"
    /\ x = im.width
    /\ LET e == write_span(Enc(File(outf, TRUE), unspan),
                           span_pixel, span_count, GENERATE_UNSPANS)
       IN
       /\ outf' = e.out
       /\ IF e.ok
          THEN /\ row_ends' = Append(row_ends, Len(e.out))
               /\ y' = y + 1
               /\ x' = 0
               /\ span_pixel' = NO_PIXEL /\ span_count' = 0 /\ unspan' = <<>>
               /\ enc_pc' = IF y + 1 = im.height THEN "done" ELSE "row"
          ELSE /\ enc_pc' = "failed"
               /\ unspan' = e.unspan
               /\ UNCHANGED <<row_ends, x, y, span_pixel, span_count>>
    /\ UNCHANGED <<im, pal, GENERATE_UNSPANS, dec_vars, badge_vars>>

\* After the last column: "write_span(); write_unspan()", then the next row
\* (fresh span_pixel, span_count, unspan) or the end of the file.
EndRow ==
    /\ enc_pc = "row"
    /\ x = im.width
    /\ LET e == write_unspan(write_span(Enc(File(outf, TRUE), unspan),
                                        span_pixel, span_count, GENERATE_UNSPANS))
       IN
       /\ outf' = e.out
       /\ IF e.ok
          THEN /\ row_ends' = Append(row_ends, Len(e.out))
               /\ y' = y + 1
               /\ x' = 0
               /\ span_pixel' = NO_PIXEL /\ span_count' = 0 /\ unspan' = <<>>
               /\ enc_pc' = IF y + 1 = im.height THEN "done" ELSE "row"
          ELSE /\ enc_pc' = "failed"
               /\ unspan' = e.unspan
               /\ UNCHANGED <<row_ends, x, y, span_pixel, span_count>>
    /\ UNCHANGED <<im, pal, GENERATE_UNSPANS, dec_vars, badge_vars>>

\* ------------------------------------------------------------- file reads
Min(a, b) == IF a < b THEN a ELSE b

\* handle.readinto(buf): fills buf from its start with the bytes still
\* available, leaves the rest of buf as it was, returns the number read.
readinto(file, at, buf) ==
    LET n == Min(Len(buf), Len(file) - at) IN
    [buf |-> [i \in 1..Len(buf) |-> IF i <= n THEN file[at + i] ELSE buf[i]],
     n   |-> n]

\* handle.read(size): the next size bytes, or fewer at the end of the file.
read(file, at, size) ==
    SubSeq(file, at + 1, at + Min(size, Len(file) - at))

\* Image.new('P', (width, height)): every pixel 0.
NewImage(w, h) == [r \in 1..h |-> [c \in 1..w |-> 0]]

\* Pixels vals[1..] stored at row py, columns px, px+1, ... below the width.
Paint(cv, px, py, vals) ==
    [cv EXCEPT ![py + 1] =
        [c \in 1..Len(cv[py + 1]) |->
            IF c - 1 >= px /\ c - px <= Len(vals) THEN vals[c - px] ELSE @[c]]]

\* History of Paint: one more paint of each of the n pixels from column px
\* of row py that lie below the width.
NoPaints(w, h) == [r \in 1..h |-> [c \in 1..w |-> 0]]
CountPaints(pt, px, py, n) ==
    [pt EXCEPT ![py + 1] =
        [c \in 1..Len(pt[py + 1]) |->
            IF c - 1 >= px /\ c - px <= n THEN @[c] + 1 ELSE @[c]]]

\* Mutant: a run paints one pixel fewer than its count.
SpanPixels_short(count, value, data) ==
    IF count = 0 THEN data ELSE [i \in 1..(count - 1) |-> value]

\* The pixels one record paints: the literal's bytes, or count times value.
SpanPixels(count, value, data) ==
    IF count = 0 THEN data ELSE [i \in 1..count |-> value]

\* draw_pri_image's palette loop: 256 times readinto(palbuf) of 3 bytes, each
\* entry a tuple of palbuf. Past the end of the file palbuf keeps what the
\* last read that reached that slot left in it (0 if none did).
PalbufSlot(file, i) ==
    LET n == Min(Len(file), PAL_LEN)
        slot == (i - 1) % 3
        last == IF n <= slot THEN 0 ELSE n - ((n - 1 - slot) % 3)
    IN  IF i <= n THEN file[i] ELSE IF last = 0 THEN 0 ELSE file[last]

ReadPaletteTuples(file) ==
    [e \in 1..256 |-> <<PalbufSlot(file, 3 * e - 2), PalbufSlot(file, 3 * e - 1),
                        PalbufSlot(file, 3 * e)>>]

\* ------------------------------------------------------ round-trip decoder
\* "if args.round_trip:" up to the first row: new image, paldata read with one
\* readinto of 768 bytes into a zeroed buffer, putpalette, span_data zeroed.
RoundTripOpen ==
    /\ enc_pc \in {"done", "none"}
    /\ dec_pc = "idle"
    /\ LET r == readinto(outf, 0, [i \in 1..PAL_LEN |-> 0]) IN
        /\ palette' = r.buf
        /\ pos' = r.n
        /\ short_read' = FALSE
    /\ dec_kind' = "roundtrip"
    /\ canvas' = NewImage(im.width, im.height)
    /\ painted' = NoPaints(im.width, im.height)
    /\ set_palette_calls' = set_palette_calls + 1
    /\ span_data' = <<0, 0>>
    /\ dec_x' = 0 /\ dec_y' = 0
    /\ dec_pc' = "rows"
    /\ UNCHANGED <<clipped, enc_vars, badge_vars>>

\* One iteration of "while x < im.width": header, then putpixel pixel by
\* pixel; putpixel raises IndexError at a column outside the image.
RoundTripSpan ==
    /\ dec_pc = "rows" /\ dec_kind = "roundtrip"
    /\ dec_x < im.width
    /\ LET h == readinto(outf, pos, span_data)
           count == h.buf[1]
           value == h.buf[2]
           data == IF count = 0 THEN read(outf, pos + h.n, value) ELSE <<>>
           pixels == SpanPixels(count, value, data)
           room == im.width - dec_x
       IN
        /\ span_data' = h.buf
        /\ pos' = pos + h.n + Len(data)
        /\ short_read' = (short_read \/ h.n < 2 \/ (count = 0 /\ Len(data) < value))
        /\ canvas' = Paint(canvas, dec_x, dec_y, pixels)
        /\ painted' = CountPaints(painted, dec_x, dec_y, Len(pixels))
        /\ dec_x' = dec_x + Min(Len(pixels), room)
        /\ dec_pc' = IF Len(pixels) > room THEN "failed" ELSE "rows"
    /\ UNCHANGED <<dec_kind, dec_y, palette, set_palette_calls, clipped, enc_vars, badge_vars>>

\* ----------------------------------------------------------- device decoder
\* draw_pri_image up to the first row of blit_from_io_spans: the palette
\* loop, display.set_palette, span_data zeroed. The display keeps whatever it
\* showed before (any one value here).
DrawPriImage ==
    /\ enc_pc \in {"done", "none"}
    /\ dec_pc = "idle"
    /\ palette' = ReadPaletteTuples(outf)
    /\ pos' = Min(Len(outf), PAL_LEN)
    /\ short_read' = FALSE
    /\ dec_kind' = "device"
    /\ \E before \in {0, 1} :
          canvas' = [r \in 1..im.height |-> [c \in 1..im.width |-> before]]
    /\ painted' = NoPaints(im.width, im.height)
    /\ set_palette_calls' = set_palette_calls + 1
    /\ span_data' = <<0, 0>>
    /\ dec_x' = 0 /\ dec_y' = 0
    /\ dec_pc' = "rows"
    /\ UNCHANGED <<clipped, enc_vars, badge_vars>>

\* Mutant: a run is painted with display.pixel, one pixel, not pixel_span.
BlitSpan_single ==
    /\ dec_pc = "rows" /\ dec_kind = "device"
    /\ dec_x < im.width
    /\ LET h == readinto(outf, pos, span_data)
           count == h.buf[1]
           value == h.buf[2]
           data == IF count = 0 THEN read(outf, pos + h.n, value) ELSE <<>>
           pixels == IF count = 0 THEN data ELSE <<value>>
       IN
        /\ span_data' = h.buf
        /\ pos' = pos + h.n + Len(data)
        /\ short_read' = (short_read \/ h.n < 2 \/ (count = 0 /\ Len(data) < value))
        /\ canvas' = Paint(canvas, dec_x, dec_y, pixels)
        /\ painted' = CountPaints(painted, dec_x, dec_y, Len(pixels))
        /\ dec_x' = dec_x + (IF count = 0 THEN Len(data) ELSE count)
        /\ clipped' = (clipped \/ dec_x' > im.width)
    /\ UNCHANGED <<dec_pc, dec_kind, dec_y, palette, set_palette_calls, enc_vars, badge_vars>>

\* One iteration of "while x < 320" of blit_from_io_spans: header, then
\* display.pixel per literal byte or one display.pixel_span; the display
\* drops what falls outside its bounds, x advances by the full amount.
BlitSpan ==
    /\ dec_pc = "rows" /\ dec_kind = "device"
    /\ dec_x < im.width
    /\ LET h == readinto(outf, pos, span_data)
           count == h.buf[1]
           value == h.buf[2]
           data == IF count = 0 THEN read(outf, pos + h.n, value) ELSE <<>>
           pixels == SpanPixels(count, value, data)
       IN
        /\ span_data' = h.buf
        /\ pos' = pos + h.n + Len(data)
        /\ short_read' = (short_read \/ h.n < 2 \/ (count = 0 /\ Len(data) < value))
        /\ canvas' = Paint(canvas, dec_x, dec_y, pixels)
        /\ painted' = CountPaints(painted, dec_x, dec_y, Len(pixels))
        /\ dec_x' = dec_x + Len(pixels)
        /\ clipped' = (clipped \/ dec_x + Len(pixels) > im.width)
    /\ UNCHANGED <<dec_pc, dec_kind, dec_y, palette, set_palette_calls, enc_vars, badge_vars>>

\* Mutant: the next row is entered without "x = 0".
DecodeNextRow_nox ==
    /\ dec_pc = "rows"
    /\ dec_x >= im.width
    /\ dec_y' = dec_y + 1
    /\ dec_pc' = IF dec_y + 1 = im.height THEN "done" ELSE "rows"
    /\ UNCHANGED <<dec_x, dec_kind, pos, span_data, canvas, palette, set_palette_calls,
                   short_read, clipped, painted, enc_vars, badge_vars>>

\* The row loop has ended ("while x < width" is false): the next y, or the
\* end of "for y in range(0, height)".
DecodeNextRow ==
    /\ dec_pc = "rows"
    /\ dec_x >= im.width
    /\ dec_y' = dec_y + 1
    /\ dec_x' = IF dec_y + 1 = im.height THEN dec_x ELSE 0
    /\ dec_pc' = IF dec_y + 1 = im.height THEN "done" ELSE "rows"
    /\ UNCHANGED <<dec_kind, pos, span_data, canvas, palette, set_palette_calls,
                   short_read, clipped, painted, enc_vars, badge_vars>>

Encode == CheckPalette \/ WritePalette \/ EncodePixel \/ EndRow

Decode == RoundTripOpen \/ RoundTripSpan \/ DrawPriImage \/ BlitSpan \/ DecodeNextRow

Next == Encode \/ Decode

Spec == Init /\ [][Next]_vars

\* ------------------------------------------------- the decoders on any file
\* Row data of any bytes after a palette, and files that end inside the palette.
RowData == UNION {[1..n -> DecBytes] : n \in 0..MaxRowBytes}

DecFiles ==
    {Palette(7, PAL_LEN) \o r : r \in RowData}
        \cup {Palette(7, n) : n \in {0, 1, PAL_LEN - 2}}

\* A file that some other run left behind; the decoder is told width and height.
InitDec ==
    /\ \E wh \in Shapes(MaxDecPixels) : im = MkImage(wh[1], wh[2], <<>>)
    /\ pal = <<>>
    /\ GENERATE_UNSPANS = TRUE
    /\ enc_pc = "none"
    /\ outf \in DecFiles
    /\ x = 0 /\ y = 0
    /\ span_pixel = NO_PIXEL /\ span_count = 0 /\ unspan = <<>>
    /\ row_ends = <<>>
    /\ DecIdle
    /\ badge_pc = "off" /\ env = "quiet" /\ BadgeLoaded

SpecDec == InitDec /\ [][Decode]_vars

\* Both: the decoders on the encoder's file and on any file.
SpecAny == (Init \/ InitDec) /\ [][Next]_vars

\* ===================================================== the stream format
\* "span starting with zero: next byte is number of bytes in non-RLE span,
\*  each is a pixel value; span starting with nonzero: next byte is pixel
\*  repeated that many times": the records in bytes from+1 .. to of a file.
\* whole is FALSE for a record the bytes end in the middle of.
\* The record at offset s.at, if any is left, added to those read before it.
ParseRecord(file, to, s) ==
    IF s.at >= to THEN s
    ELSE IF s.at + 2 > to
    THEN [at |-> to,
          recs |-> Append(s.recs, [count |-> file[s.at + 1], value |-> 0,
                                   data |-> <<>>, whole |-> FALSE])]
    ELSE LET count == file[s.at + 1]
             value == file[s.at + 2]
             size == IF count = 0 THEN value ELSE 0
         IN  [at |-> s.at + 2 + size,
              recs |-> Append(s.recs,
                  [count |-> count, value |-> value,
                   data |-> SubSeq(file, s.at + 3, Min(to, s.at + 2 + size)),
                   whole |-> (s.at + 2 + size <= to)])]

\* n records read one after the other. The first half is read before the
\* second is begun, which keeps the evaluation shallow on a row of several
\* hundred records.
RECURSIVE ParseSteps(_, _, _, _)
ParseSteps(file, to, n, s) ==
    IF n = 0 THEN s
    ELSE IF n = 1 THEN ParseRecord(file, to, s)
    ELSE LET mid == ParseSteps(file, to, n \div 2, s) IN
         IF mid.at >= to THEN mid
         ELSE ParseSteps(file, to, n - n \div 2, mid)

\* A record takes at least two bytes, so (to - from + 1) \div 2 steps read all.
ParseRecords(file, from, to) ==
    IF from >= to THEN <<>>
    ELSE ParseSteps(file, to, (to - from + 1) \div 2, [at |-> from, recs |-> <<>>]).recs

IsRun(r) == r.count # 0
IsLiteral(r) == r.count = 0
\* Pixels a record contributes to its row.
Contribution(r) == IF IsRun(r) THEN r.count ELSE Len(r.data)

RECURSIVE SumContributions(_)
SumContributions(recs) ==
    IF recs = <<>> THEN 0
    ELSE IF Len(recs) = 1 THEN Contribution(recs[1])
    ELSE LET half == Len(recs) \div 2
         IN  SumContributions(SubSeq(recs, 1, half))
                + SumContributions(SubSeq(recs, half + 1, Len(recs)))

CeilDiv(a, b) == (a + b - 1) \div b

\* Where row k (1-based) starts in the file, and its records.
RowStart(k) == IF k = 1 THEN PAL_LEN ELSE row_ends[k - 1]
RowRecords(k) == ParseRecords(outf, RowStart(k), row_ends[k])

\* The encoder has just finished a row (every row passes through this state).
RowFinished == enc_pc \in {"row", "done"} /\ x = 0 /\ row_ends # <<>> /\ dec_pc = "idle"
LastRow == Len(row_ends)

ValidImage ==
    \A r \in 1..im.height : \A c \in 1..im.width : im.px[r][c] \in Byte

\* The decoded palette as a flat byte sequence.
FlatPalette ==
    IF dec_kind = "device"
    THEN [i \in 1..(3 * Len(palette)) |-> palette[(i + 2) \div 3][((i - 1) % 3) + 1]]
    ELSE palette

\* ================================================================= claims
\* C1 (round-trip): when either decoder has finished reading the file the
\* encoder wrote (either policy), the target holds exactly the source image's
\* pixels and the palette read back is the palette written; the decoder
\* does not fail on the way.
C1_RoundTrip ==
    /\ enc_pc = "done" => dec_pc # "failed"
    /\ (enc_pc = "done" /\ dec_pc = "done") =>
          /\ canvas = im.px
          /\ FlatPalette = pal

\* A wide image with a singleton, literals and runs has been decoded.
C1_Witness ==
    /\ enc_pc = "done" /\ dec_pc = "done" /\ dec_kind = "device"
    /\ GENERATE_UNSPANS
    /\ im.width = 257 /\ im.px[1][1] = 7 /\ im.px[1][2] = 0
    /\ canvas = im.px

\* C2 (row-sum invariant): the records written for a row contribute exactly
\* im.width pixels, and the row's bytes end exactly at a record's end.
C2_RowSum ==
    RowFinished =>
        LET recs == RowRecords(LastRow) IN
        /\ \A i \in 1..Len(recs) : recs[i].whole
        /\ SumContributions(recs) = im.width

\* A finished row made of several records, literal and run.
C2_Witness ==
    /\ RowFinished /\ GENERATE_UNSPANS /\ im.width = 512
    /\ Len(RowRecords(LastRow)) = 4

\* C3 (field bounds): every run record has a count in 1..255, every literal
\* record a length in 1..255 and as many payload bytes; the encoder never
\* stops on a count or length that does not fit a byte, because no state
\* between two pixels holds a span of 255 or a buffer of 255 entries.
C3_FieldBounds ==
    /\ enc_pc # "failed" => span_count < MAX_SPAN /\ Len(unspan) < MAX_SPAN
    /\ (ValidImage /\ Len(pal) = PAL_LEN) => enc_pc # "failed"
    /\ RowFinished =>
          LET recs == RowRecords(LastRow) IN
          \A i \in 1..Len(recs) :
              /\ recs[i].count \in 0..MAX_SPAN
              /\ IsRun(recs[i]) => recs[i].count >= 1
              /\ IsLiteral(recs[i]) =>
                    recs[i].value \in 1..MAX_SPAN /\ Len(recs[i].data) = recs[i].value

\* A row with a run of 255 and a literal of 255 has been written.
C3_Witness ==
    /\ RowFinished /\ GENERATE_UNSPANS
    /\ \E i \in 1..Len(RowRecords(LastRow)) :
          LET r == RowRecords(LastRow)[i] IN IsLiteral(r) /\ r.value = MAX_SPAN
    /\ im.width >= 510

\* C4 (truncated stream), as claimed: in a file with a whole palette, once a
\* header read or a literal read has come back short the decoder has stopped
\* with a failure.
C4_TruncatedStream ==
    (Len(outf) >= PAL_LEN /\ short_read) => dec_pc = "failed"

\* C5 (row overflow), as claimed: the column cursor passes the width only
\* in a decoder that has stopped with a failure.
C5_RowOverflow == dec_x > im.width => dec_pc = "failed"

RowUniform(k) == \A c \in 1..im.width : im.px[k][c] = im.px[k][1]
RowNoisy(k) == \A c \in 1..(im.width - 1) : im.px[k][c] # im.px[k][c + 1]

\* C6 (uniform row): a row of im.width pixels all equal to v is written as
\* ceil(width / 255) run records of value v, each of count 255 but the last,
\* which carries what is left, under either policy.
C6_UniformRow ==
    (RowFinished /\ RowUniform(LastRow)) =>
        LET recs == RowRecords(LastRow)
            n == CeilDiv(im.width, MAX_SPAN)
        IN  /\ Len(recs) = n
            /\ \A i \in 1..Len(recs) :
                  /\ IsRun(recs[i])
                  /\ recs[i].value = im.px[LastRow][1]
                  /\ recs[i].count = IF i < n THEN MAX_SPAN
                                     ELSE im.width - MAX_SPAN * (n - 1)

\* A uniform row of two full runs, and one of a full run and a remainder of 1.
C6_Witness ==
    /\ RowFinished /\ RowUniform(LastRow)
    /\ im.width = 256 /\ GENERATE_UNSPANS
    /\ Len(RowRecords(LastRow)) = 2

\* C7 (fully noisy row), as claimed: with the policy on, ceil(width / 255)
\* literal records and no run record; with it off, one run of count 1 per pixel.
C7_NoisyRowOriginal ==
    (RowFinished /\ RowNoisy(LastRow)) =>
        LET recs == RowRecords(LastRow) IN
        IF GENERATE_UNSPANS
        THEN /\ Len(recs) = CeilDiv(im.width, MAX_SPAN)
             /\ \A i \in 1..Len(recs) : IsLiteral(recs[i])
        ELSE /\ Len(recs) = im.width
             /\ \A i \in 1..Len(recs) :
                   recs[i].count = 1 /\ recs[i].value = im.px[LastRow][i]

\* C7 as amended: with the policy on a fully noisy row is written as
\* floor(width / 255) literal records of 255 pixels, followed by one literal
\* record of the remaining pixels when two or more remain and by one run
\* record of count 1 when exactly one remains (ceil(width / 255) records in
\* all; [1,2,3] gives 00 03 01 02 03); with the policy off, one run of
\* count 1 per pixel.
C7_NoisyRow ==
    (RowFinished /\ RowNoisy(LastRow)) =>
        LET recs == RowRecords(LastRow)
            row == im.px[LastRow]
            full == im.width \div MAX_SPAN
            rest == im.width % MAX_SPAN
        IN
        IF GENERATE_UNSPANS
        THEN /\ Len(recs) = CeilDiv(im.width, MAX_SPAN)
             /\ \A i \in 1..Len(recs) :
                   IF i <= full
                   THEN /\ IsLiteral(recs[i]) /\ recs[i].value = MAX_SPAN
                        /\ recs[i].data = SubSeq(row, MAX_SPAN * (i - 1) + 1, MAX_SPAN * i)
                   ELSE IF rest = 1
                   THEN recs[i].count = 1 /\ recs[i].value = row[im.width]
                   ELSE /\ IsLiteral(recs[i]) /\ recs[i].value = rest
                        /\ recs[i].data = SubSeq(row, MAX_SPAN * full + 1, im.width)
             /\ (row = <<1, 2, 3>> /\ LastRow = 1) =>
                   SubSeq(outf, PAL_LEN + 1, Len(outf)) = <<0, 3, 1, 2, 3>>
        ELSE /\ Len(recs) = im.width
             /\ \A i \in 1..Len(recs) :
                   recs[i].count = 1 /\ recs[i].value = row[i]

\* A noisy row of 256 pixels: a literal of 255 and a run of 1.
C7_Witness ==
    /\ RowFinished /\ RowNoisy(LastRow) /\ GENERATE_UNSPANS
    /\ im.width = 256
    /\ Len(RowRecords(LastRow)) = 2
    /\ IsRun(RowRecords(LastRow)[2])

\* C8 (stream alignment): on a file the encoder wrote, with the same width
\* and height, the decoder's cursor never passes the width, each row is
\* entered at the byte after the previous row's last record and left at the
\* row's last byte, the file is used up exactly when the last row is done,
\* and no read comes back short.
C8_Alignment ==
    (enc_pc = "done" /\ dec_pc # "idle") =>
        /\ dec_pc # "failed" /\ ~short_read /\ ~clipped
        /\ dec_x <= im.width
        /\ pos <= Len(outf)
        /\ (dec_pc = "rows" /\ dec_x = 0) => pos = RowStart(dec_y + 1)
        /\ (dec_pc = "rows" /\ dec_x = im.width) => pos = row_ends[dec_y + 1]
        /\ dec_pc = "done" => pos = Len(outf) /\ dec_y = im.height

\* The second row of a wide two-row image is entered.
C8_Witness ==
    /\ enc_pc = "done" /\ dec_pc = "rows" /\ dec_kind = "roundtrip"
    /\ dec_y = 1 /\ dec_x = 0 /\ im.width = 256 /\ GENERATE_UNSPANS
    /\ pos = row_ends[1]

\* The target is as it was when the decoder was started: one value everywhere.
Unpainted ==
    \A r \in 1..im.height : \A c \in 1..im.width : canvas[r][c] = canvas[1][1]

\* C9 (palette ordering): the file is empty until the palette is written,
\* its first 768 bytes are the palette, and the first row starts at byte 768;
\* the decoder has programmed the palette exactly once, from those 768
\* bytes, when it reads its first header, with nothing painted yet.
C9_PaletteFirst ==
    /\ enc_pc \in {"start", "palette"} => outf = <<>>
    /\ enc_pc \in {"row", "done"} =>
          Len(outf) >= PAL_LEN /\ SubSeq(outf, 1, PAL_LEN) = pal
    /\ (enc_pc = "row" /\ x = 0 /\ y = 0) => Len(outf) = PAL_LEN
    /\ dec_pc = "idle" => pos = 0 /\ set_palette_calls = 0
    /\ (enc_pc = "done" /\ dec_pc # "idle") =>
          /\ set_palette_calls = 1
          /\ pos >= PAL_LEN
          /\ FlatPalette = SubSeq(outf, 1, PAL_LEN)
          /\ (dec_pc = "rows" /\ dec_x = 0 /\ dec_y = 0) => pos = PAL_LEN /\ Unpainted

\* The device decoder is about to read its first header.
C9_Witness ==
    /\ enc_pc = "done" /\ dec_pc = "rows" /\ dec_kind = "device"
    /\ dec_x = 0 /\ dec_y = 0 /\ pos = PAL_LEN
    /\ pal = Palette(11, PAL_LEN) /\ set_palette_calls = 1

AllBytes(bytes) == \A i \in 1..Len(bytes) : bytes[i] \in Byte

\* C10 (invalid pixel): for an image with a pixel outside 0..255 no step
\* completes the encode or puts a value outside 0..255 into the file, the
\* encoder can always take a step until it has failed, and once it has
\* failed nothing more is written.
C10_InvalidPixel ==
    /\ [](~ValidImage =>
            /\ enc_pc # "done"
            /\ AllBytes(outf)
            /\ enc_pc # "failed" => ENABLED Encode)
    /\ [][enc_pc = "failed" => (outf' = outf /\ enc_pc' = "failed")]_vars

\* An encode that failed on its second row, after records had been written.
C10_Witness ==
    /\ enc_pc = "failed" /\ ~ValidImage
    /\ Len(row_ends) = 1 /\ Len(outf) > row_ends[1]

\* C11 (palette overflow): with a palette that is not 768 values long the
\* encode stops at its assertion: no row is entered and the file stays empty.
C11_PaletteOverflow ==
    Len(pal) # PAL_LEN =>
        /\ enc_pc \in {"start", "failed"}
        /\ outf = <<>>
        /\ x = 0 /\ y = 0 /\ row_ends = <<>>

\* The encode of an image with a 255-entry palette has failed.
C11_Witness ==
    enc_pc = "failed" /\ Len(pal) = PAL_LEN - 3 /\ outf = <<>>

\* Where each record of a row starts: the pixels contributed before it.
RECURSIVE RecordStarts(_, _)
RecordStarts(recs, from) ==
    IF recs = <<>> THEN <<>>
    ELSE IF Len(recs) = 1 THEN <<from>>
    ELSE LET half == Len(recs) \div 2
             left == SubSeq(recs, 1, half)
         IN  RecordStarts(left, from)
                \o RecordStarts(SubSeq(recs, half + 1, Len(recs)),
                                from + SumContributions(left))

\* Pixel c (1-based) of row k differs from both its neighbours.
Isolated(k, c) ==
    /\ c > 1 => im.px[k][c - 1] # im.px[k][c]
    /\ c < im.width => im.px[k][c + 1] # im.px[k][c]

\* C12 (policy disabled): with --no-generate-unspans the unspan buffer is
\* empty in every state, every record of a row is a whole two-byte run
\* record, and every isolated pixel is a run of count 1 of its own.
C12_PolicyDisabled ==
    ~GENERATE_UNSPANS =>
        /\ unspan = <<>>
        /\ RowFinished =>
              LET recs == RowRecords(LastRow)
                  starts == RecordStarts(recs, 0)
              IN  /\ \A i \in 1..Len(recs) : IsRun(recs[i]) /\ recs[i].whole
                  /\ row_ends[LastRow] - RowStart(LastRow) = 2 * Len(recs)
                  /\ \A c \in 1..im.width :
                        Isolated(LastRow, c) =>
                            \E i \in 1..Len(recs) :
                                /\ starts[i] = c - 1
                                /\ recs[i].count = 1
                                /\ recs[i].value = im.px[LastRow][c]

\* A long row of isolated pixels has been written with the policy off.
C12_Witness ==
    /\ ~GENERATE_UNSPANS /\ RowFinished
    /\ im.width = 256 /\ RowNoisy(LastRow)
    /\ Len(RowRecords(LastRow)) = 256

\* ------------------------------------------------------------------- badge
Buttons == {"a", "b", "c", "up", "down"}
\* The buttons held down when a step reads them.
Presses == {{}, {"a"}, {"c"}, {"up"}, {"down", "b"}, {"c", "up"}, {"c", "down"}}
\* lux.read_u16(): dark, a lit room, a torch.
Luminances == {0, 20000, 40000}
\* random.randint(1*25, 3*25) and random.randint(10*25, 60*25).
TurnTicks == {1 * 25, 1 * 25 + 1, 3 * 25}
RegularTicks == {10 * 25, 10 * 25 + 1, 60 * 25}

\* What the surroundings do. "light": the light and the battery come and
\* go, nothing pressed. "battery": every battery reading under a torch,
\* nothing pressed. "buttons": every press, in a lit room on a good battery.
\* "quiet": the badge lies in the dark on a good battery, nothing pressed.
\* "held": under a torch the user pages to the status screen and holds the
\* down button.
Envs == {"light", "battery", "buttons", "quiet", "held"}
LoopBound ==
    CASE env \in {"light", "battery", "buttons"} -> MaxLoops
      [] env = "quiet" -> MaxQuietLoops
      [] env = "held" -> MaxHeldLoops
Read(buttons) ==
    LET down == CASE env = "buttons" -> Presses
                  [] env = "held" -> IF current_mode = 2 THEN {{"down"}} ELSE {{"a"}}
                  [] OTHER -> {{}}
    IN  {pr \cap buttons : pr \in down}
LuxReadings ==
    CASE env = "light" -> Luminances
      [] env = "buttons" -> {20000}
      [] env = "quiet" -> {0}
      [] OTHER -> {40000}
UsbPower == IF env = "battery" THEN BOOLEAN ELSE {FALSE}
\* vref_adc.read_u16() and vbat_adc.read_u16(): batteries of about
\* 2.996, 3.300, 3.500 and 3.601 V.
VrefReadings == {24576}
VbatReadings ==
    CASE env = "battery" -> {19800, 21806, 23127, 23800}
      [] env = "light" -> {19800, 23800}
      [] OTHER -> {23800}

Max(a, b) == IF a > b THEN a ELSE b

badge_modes ==
    << [init |-> "bmode_fursona_init", tick |-> "bmode_fursona_tick"],
       [init |-> "bmode_qr_init",      tick |-> "do_nothing"],
       [init |-> "bmode_status_init",  tick |-> "bmode_status_tick"] >>

\* The mode functions that run when fn is called: bmode_fursona_init and
\* bmode_status_init end by calling their mode's tick.
Called(fn) ==
    CASE fn = "bmode_fursona_init" -> <<fn, "bmode_fursona_tick">>
      [] fn = "bmode_status_init" -> <<fn, "bmode_status_tick">>
      [] OTHER -> <<fn>>

\* Mutant: the smoothed backlight is not held to the cap.
auto_brightness_nocap(st, lux, pr) ==
    LET luminance == IF {"c", "up"} \subseteq pr THEN U16_MAX ELSE lux
        luminance_frac ==
            Min(1000, (Max(0, luminance - LUMINANCE_LOW) * 1000)
                          \div (LUMINANCE_HIGH - LUMINANCE_LOW))
        target == BACKLIGHT_LOW
                    + (luminance_frac * (BACKLIGHT_HIGH - BACKLIGHT_LOW)) \div 1000
    IN  [st EXCEPT !.lum = luminance,
                   !.lum_low = Min(@, luminance),
                   !.lum_high = Max(@, luminance),
                   !.backlight = st.backlight + (target - st.backlight) \div 32]

auto_brightness(st, lux, pr) ==
    LET luminance == IF {"c", "up"} \subseteq pr THEN U16_MAX ELSE lux
        luminance_frac ==
            Min(1000, (Max(0, luminance - LUMINANCE_LOW) * 1000)
                          \div (LUMINANCE_HIGH - LUMINANCE_LOW))
        target == BACKLIGHT_LOW
                    + (luminance_frac * (BACKLIGHT_HIGH - BACKLIGHT_LOW)) \div 1000
        smeared == st.backlight + (target - st.backlight) \div 32
        backlight == IF smeared > st.backlight_cap THEN st.backlight_cap ELSE smeared
    IN  [st EXCEPT !.lum = luminance,
                   !.lum_low = Min(@, luminance),
                   !.lum_high = Max(@, luminance),
                   !.backlight = backlight]

\* The branch measure_battery takes.
MeasureBranch(pr, usb_power) ==
    IF {"c", "down"} \subseteq pr THEN "debug"
    ELSE IF LOW_BATTERY_VOLTAGE = 0 THEN "skipped"
    ELSE IF usb_power THEN "usb"
    ELSE "battery"

\* Mutant: no hysteresis, low_battery follows the lower threshold alone.
measure_battery_nohyst(st, pr, usb_power, vref, vbat_adc) ==
    LET vdd == (1240 * U16_MAX) \div vref
        vbat == (vbat_adc * 3 * vdd) \div U16_MAX
    IN  IF MeasureBranch(pr, usb_power) = "battery"
        THEN [st EXCEPT !.vbat = vbat, !.vbat_low = Min(@, vbat),
                        !.vbat_high = Max(@, vbat), !.usb = FALSE,
                        !.low_battery = (vbat < LOW_BATTERY_VOLTAGE)]
        ELSE st

measure_battery(st, pr, usb_power, vref, vbat_adc) ==
    LET branch == MeasureBranch(pr, usb_power)
        vdd == (1240 * U16_MAX) \div vref
        vbat == (vbat_adc * 3 * vdd) \div U16_MAX
    IN  CASE branch = "debug" ->
                [st EXCEPT !.vbat = 3000, !.usb = FALSE, !.low_battery = TRUE]
          [] branch = "skipped" -> st
          [] branch = "usb" ->
                [st EXCEPT !.usb = TRUE, !.low_battery = FALSE]
          [] branch = "battery" ->
                [st EXCEPT !.vbat = vbat,
                           !.vbat_low = Min(@, vbat),
                           !.vbat_high = Max(@, vbat),
                           !.usb = FALSE,
                           !.low_battery = IF vbat < LOW_BATTERY_VOLTAGE THEN TRUE
                                           ELSE IF vbat > RECOVERED_BATTERY_VOLTAGE THEN FALSE
                                           ELSE @]

\* The backlight cap adjustment at the head of bmode_status_tick.
bmode_status_tick(st, pr) ==
    LET up == IF "up" \in pr /\ "c" \notin pr
              THEN [st EXCEPT !.backlight_cap = Min(@ + 10, BACKLIGHT_HIGH)]
              ELSE st
    IN  IF "down" \in pr /\ "c" \notin pr
        THEN [up EXCEPT !.backlight_cap = Max(@ - 10, BACKLIGHT_LOW)]
        ELSE up

\* The files on the badge: what draw_pri_image reads as the palette.
FileOnBadge(filename) ==
    CASE filename = "fursona-regular.pri" -> Palette(7, PAL_LEN)
      [] filename = "fursona-turn.pri" -> Palette(11, PAL_LEN)
      [] filename = "fursona-bright.pri" -> Palette(13, PAL_LEN)
      [] filename = "fursona-lowbat.pri" -> Palette(17, PAL_LEN)
      [] filename = "status.pri" -> Palette(19, PAL_LEN)

\* f"fursona-{face}.pri"
FaceFile(face) ==
    CASE face = "regular" -> "fursona-regular.pri"
      [] face = "turn" -> "fursona-turn.pri"
      [] face = "bright" -> "fursona-bright.pri"
      [] face = "lowbat" -> "fursona-lowbat.pri"

\* The palette draw_pri_image returns.
BadgeFiles == {"fursona-regular.pri", "fursona-turn.pri", "fursona-bright.pri",
               "fursona-lowbat.pri", "status.pri"}
PaletteOfFile == [f \in BadgeFiles |-> ReadPaletteTuples(FileOnBadge(f))]
draw_pri_image(filename) == PaletteOfFile[filename]

\* Mutant: the slice is moved the other way.
CyclePalette_back(p) ==
    [i \in 1..Len(p) |->
        IF i - 1 = PALCYCLE_LAST THEN p[PALCYCLE_FIRST + 1]
        ELSE IF i - 1 >= PALCYCLE_FIRST /\ i - 1 < PALCYCLE_LAST THEN p[i + 1]
        ELSE p[i]]

\* "Cycle the palette": wrap = p[LAST]; p[FIRST+1:LAST+1] = p[FIRST:LAST];
\* p[FIRST] = wrap. (Python indices are from 0, sequence indices from 1.)
CyclePalette(p) ==
    LET wrap == p[PALCYCLE_LAST + 1]
        moved == [i \in 1..Len(p) |->
                    IF i - 1 >= PALCYCLE_FIRST + 1 /\ i - 1 < PALCYCLE_LAST + 1
                    THEN p[i - 1] ELSE p[i]]
    IN  [moved EXCEPT ![PALCYCLE_FIRST + 1] = wrap]

\* The globals the mode functions read and write.
BadgeGlobals ==
    [stats |-> stats,
     face |-> bmode_fursona_current_face,
     ticks |-> bmode_fursona_ticks_until_turn,
     bright |-> bmode_fursona_is_bright,
     palette |-> bmode_fursona_palette,
     draws |-> draws, loaded |-> loaded, cycles |-> cycles,
     randint |-> "none", ok |-> TRUE]

\* What the random.randint call a tick made returns, if it made one.
Randint(b) ==
    CASE b.randint = "turn" -> TurnTicks
      [] b.randint = "regular" -> RegularTicks
      [] b.randint = "none" -> {b.ticks}

\* The buttons the mode function fn finds pressed, if it reads any.
ReadBy(fn) ==
    IF fn \in {"bmode_status_init", "bmode_status_tick"}
    THEN Read({"c", "up", "down"}) ELSE {{}}

\* Mutant: low battery overrides bright light.
bmode_fursona_tick_lowfirst(b) ==
    LET bright == IF b.stats.lum < REACT_BRIGHT_RESET THEN FALSE
                  ELSE IF b.stats.lum > REACT_BRIGHT_SET THEN TRUE ELSE b.bright
        face == IF b.stats.low_battery THEN "lowbat"
                ELSE IF bright THEN "bright"
                ELSE IF b.face = "turn" THEN "turn" ELSE "regular"
        reload == b.face # face
        drawn == draw_pri_image(FaceFile(face))
    IN  [b EXCEPT !.face = face, !.bright = bright,
                  !.draws = IF reload THEN Append(@, FaceFile(face)) ELSE @,
                  !.loaded = IF reload THEN drawn ELSE @,
                  !.cycles = IF reload THEN 0 ELSE @ + 1,
                  !.palette = CyclePalette(IF reload THEN drawn ELSE @)]

\* bmode_fursona_tick; randint tells which random.randint call it made.
\* Indexing a palette of None raises TypeError (ok = FALSE).
bmode_fursona_tick(b) ==
    LET start == IF b.face = "turn" THEN "turn" ELSE "regular"
        set == IF b.stats.lum > REACT_BRIGHT_SET THEN TRUE ELSE b.bright
        bright == IF b.stats.lum < REACT_BRIGHT_RESET THEN FALSE ELSE set
        override == IF bright THEN "bright"
                    ELSE IF b.stats.low_battery THEN "lowbat"
                    ELSE start
        counting == override \in {"regular", "turn"}
        ticks == IF counting THEN b.ticks - 1 ELSE b.ticks
        flip == counting /\ ticks <= 0
        face == IF flip /\ b.face = "regular" THEN "turn"
                ELSE IF flip /\ b.face = "turn" THEN "regular"
                ELSE override
        randint == IF flip /\ b.face = "regular" THEN "turn"
                   ELSE IF flip /\ b.face = "turn" THEN "regular"
                   ELSE "none"
        reload == b.face # face
        current == IF reload THEN draw_pri_image(FaceFile(face)) ELSE b.palette
    IN  [b EXCEPT !.face = face, !.bright = bright, !.ticks = ticks,
                  !.randint = randint,
                  !.draws = IF reload THEN Append(@, FaceFile(face)) ELSE @,
                  !.loaded = IF reload THEN current ELSE @,
                  !.cycles = IF reload THEN 0 ELSE @ + 1,
                  !.palette = IF current = <<>> THEN current ELSE CyclePalette(current),
                  !.ok = (current # <<>>)]

bmode_fursona_init(b) == bmode_fursona_tick([b EXCEPT !.face = "None"])

\* What calling the mode function fn does to the globals; pr are the buttons
\* its reads find pressed.
RunMode(fn, b, pr) ==
    CASE fn = "bmode_fursona_init" -> bmode_fursona_init(b)
      [] fn = "bmode_fursona_tick" -> bmode_fursona_tick(b)
      [] fn = "bmode_qr_init" -> b
      [] fn = "do_nothing" -> b
      [] fn = "bmode_status_init" ->
            [b EXCEPT !.draws = Append(@, "status.pri"),
                      !.stats = bmode_status_tick(@, pr)]
      [] fn = "bmode_status_tick" ->
            [b EXCEPT !.stats = bmode_status_tick(@, pr)]

\* "current_mode = 0" and the first init call, before the loop.
Startup ==
    /\ badge_pc = "startup"
    /\ LET fn == badge_modes[current_mode + 1].init IN
       \E pr \in ReadBy(fn) :
          LET b == RunMode(fn, BadgeGlobals, pr) IN
          /\ calls' = calls \o Called(fn)
          /\ stats' = b.stats
          /\ bmode_fursona_current_face' = b.face
          /\ bmode_fursona_ticks_until_turn' \in Randint(b)
          /\ bmode_fursona_is_bright' = b.bright
          /\ bmode_fursona_palette' = b.palette
          /\ draws' = b.draws /\ loaded' = b.loaded /\ cycles' = b.cycles
          /\ badge_pc' = IF b.ok THEN "auto_brightness" ELSE "failed"
    /\ UNCHANGED <<current_mode, pressed, measured, set_backlight_arg, loops, env,
                   enc_vars, dec_vars>>

AutoBrightness ==
    /\ badge_pc = "auto_brightness"
    /\ loops < LoopBound
    /\ \E lux \in LuxReadings : \E pr \in Read({"c", "up"}) :
          /\ pressed' = pr
          /\ stats' = auto_brightness(stats, lux, pr)
    /\ loops' = loops + 1
    /\ badge_pc' = "measure_battery"
    /\ UNCHANGED <<current_mode, measured, set_backlight_arg, calls, env, fursona_vars,
                   enc_vars, dec_vars>>

MeasureBattery ==
    /\ badge_pc = "measure_battery"
    /\ \E pr \in Read({"c", "down"}) : \E usb_power \in UsbPower :
       \E vref \in VrefReadings : \E vbat_adc \in VbatReadings :
          /\ pressed' = pr
          /\ measured' = MeasureBranch(pr, usb_power)
          /\ stats' = measure_battery(stats, pr, usb_power, vref, vbat_adc)
    /\ badge_pc' = "set_backlight"
    /\ UNCHANGED <<current_mode, set_backlight_arg, calls, loops, env, fursona_vars,
                   enc_vars, dec_vars>>

\* Mutant: the backlight is set without looking at low_battery.
SetBacklight_nolow ==
    /\ badge_pc = "set_backlight"
    /\ set_backlight_arg' = stats.backlight
    /\ badge_pc' = "buttons"
    /\ UNCHANGED <<stats, current_mode, pressed, measured, calls, loops, env, fursona_vars,
                   enc_vars, dec_vars>>

\* 'if stats["low_battery"]: ...' and display.set_backlight.
SetBacklight ==
    /\ badge_pc = "set_backlight"
    /\ stats' = IF stats.low_battery
                THEN [stats EXCEPT !.backlight = BACKLIGHT_LOW]
                ELSE stats
    /\ set_backlight_arg' = stats'.backlight
    /\ badge_pc' = "buttons"
    /\ UNCHANGED <<current_mode, pressed, measured, calls, loops, env, fursona_vars,
                   enc_vars, dec_vars>>

\* Mutant: the mode is switched without calling its init.
ModeSwitch_noinit ==
    /\ badge_pc = "buttons"
    /\ \E pr \in Read(Buttons) :
          /\ pressed' = pr
          /\ IF pr \cap {"up", "down"} = {} /\ pr \cap {"a", "b", "c"} # {}
             THEN current_mode' = IF current_mode + 1 >= Len(badge_modes)
                                  THEN 0 ELSE current_mode + 1
             ELSE current_mode' = current_mode
    /\ badge_pc' = "tick"
    /\ UNCHANGED <<stats, measured, set_backlight_arg, calls, loops, env, fursona_vars,
                   enc_vars, dec_vars>>

\* The button test of the main loop.
ModeSwitch ==
    /\ badge_pc = "buttons"
    /\ \E pr \in Read(Buttons) :
          /\ pressed' = pr
          /\ IF pr \cap {"up", "down"} = {} /\ pr \cap {"a", "b", "c"} # {}
             THEN /\ current_mode' = IF current_mode + 1 >= Len(badge_modes)
                                     THEN 0 ELSE current_mode + 1
                  /\ LET fn == badge_modes[current_mode' + 1].init IN
                     \E pr2 \in ReadBy(fn) :
                        LET b == RunMode(fn, BadgeGlobals, pr2) IN
                        /\ calls' = calls \o Called(fn)
                        /\ stats' = b.stats
                        /\ bmode_fursona_current_face' = b.face
                        /\ bmode_fursona_ticks_until_turn' \in Randint(b)
                        /\ bmode_fursona_is_bright' = b.bright
                        /\ bmode_fursona_palette' = b.palette
                        /\ draws' = b.draws /\ loaded' = b.loaded /\ cycles' = b.cycles
                        /\ badge_pc' = IF b.ok THEN "tick" ELSE "failed"
             ELSE /\ badge_pc' = "tick"
                  /\ UNCHANGED <<current_mode, calls, stats, fursona_vars>>
    /\ UNCHANGED <<measured, set_backlight_arg, loops, env, enc_vars, dec_vars>>

\* 'badge_modes[current_mode]["tick"]()' and the sleep.
Tick ==
    /\ badge_pc = "tick"
    /\ LET fn == badge_modes[current_mode + 1].tick IN
       \E pr \in ReadBy(fn) :
          LET b == RunMode(fn, BadgeGlobals, pr) IN
          /\ calls' = calls \o Called(fn)
          /\ pressed' = IF fn = "bmode_status_tick" THEN pr ELSE pressed
          /\ stats' = b.stats
          /\ bmode_fursona_current_face' = b.face
          /\ bmode_fursona_ticks_until_turn' \in Randint(b)
          /\ bmode_fursona_is_bright' = b.bright
          /\ bmode_fursona_palette' = b.palette
          /\ draws' = b.draws /\ loaded' = b.loaded /\ cycles' = b.cycles
          /\ badge_pc' = IF b.ok THEN "auto_brightness" ELSE "failed"
    /\ UNCHANGED <<current_mode, measured, set_backlight_arg, loops, env, enc_vars, dec_vars>>

MainLoop == Startup \/ AutoBrightness \/ MeasureBattery \/ SetBacklight \/ ModeSwitch \/ Tick

InitBadge ==
    /\ im = MkImage(1, 1, <<0>>) /\ pal = <<>>
    /\ GENERATE_UNSPANS = TRUE
    /\ enc_pc = "none"
    /\ outf = <<>>
    /\ x = 0 /\ y = 0
    /\ span_pixel = NO_PIXEL /\ span_count = 0 /\ unspan = <<>>
    /\ row_ends = <<>>
    /\ DecIdle
    /\ badge_pc = "startup" /\ env \in Envs /\ BadgeLoaded

SpecBadge == InitBadge /\ [][MainLoop]_vars


\* C13 (low-battery hysteresis): low_battery becomes true only in a
\* measure_battery call that takes the debug key or measures a voltage below
\* LOW_BATTERY_VOLTAGE; it becomes false only in a call that finds USB power
\* or measures a voltage above RECOVERED_BATTERY_VOLTAGE; a measurement from
\* LOW_BATTERY_VOLTAGE to RECOVERED_BATTERY_VOLTAGE leaves it as it was; no
\* other step changes it.
C13_Hysteresis ==
    [][LET before == stats.low_battery
           after == stats'.low_battery
           vbat == stats'.vbat
       IN  IF badge_pc = "measure_battery"
           THEN /\ (~before /\ after) =>
                      \/ measured' = "debug"
                      \/ measured' = "battery" /\ vbat < LOW_BATTERY_VOLTAGE
                /\ (before /\ ~after) =>
                      \/ measured' = "usb"
                      \/ measured' = "battery" /\ vbat > RECOVERED_BATTERY_VOLTAGE
                /\ (/\ measured' = "battery"
                    /\ vbat >= LOW_BATTERY_VOLTAGE
                    /\ vbat <= RECOVERED_BATTERY_VOLTAGE) => after = before
           ELSE after = before]_vars

\* A low battery measured at exactly RECOVERED_BATTERY_VOLTAGE is still low.
C13_Witness ==
    /\ badge_pc = "set_backlight"
    /\ measured = "battery"
    /\ stats.vbat = RECOVERED_BATTERY_VOLTAGE
    /\ stats.vbat_low < LOW_BATTERY_VOLTAGE
    /\ stats.low_battery

\* C14 (low battery forces minimum backlight): once set_backlight has been
\* called in an iteration whose measure_battery left low_battery true, the
\* value it was given is BACKLIGHT_LOW, whatever the luminance and the cap.
C14_LowBacklight ==
    (badge_pc \in {"buttons", "tick"} /\ stats.low_battery)
        => set_backlight_arg = BACKLIGHT_LOW

\* Low battery under the brightest light with a lowered cap.
C14_Witness ==
    /\ badge_pc = "buttons"
    /\ stats.low_battery
    /\ stats.lum = U16_MAX
    /\ stats.backlight_cap < BACKLIGHT_HIGH
    /\ set_backlight_arg = BACKLIGHT_LOW

\* The init functions among a sequence of calls.
InitsIn(new) ==
    {i \in DOMAIN new : \E m \in DOMAIN badge_modes : new[i] = badge_modes[m].init}

\* C15 (mode cycling): current_mode is an index of badge_modes; it changes
\* only in the button test, to its cyclic successor, with A, B or C pressed
\* and neither up nor down, and that step calls the new mode's init once; no
\* other step but startup (init of mode 0) calls an init; the tick step
\* calls the current mode's tick; every tick call of a mode comes after an
\* init call of that mode with no other init in between.
C15_ModeCycling ==
    /\ [](current_mode \in 0..(Len(badge_modes) - 1))
    /\ [][LET new == SubSeq(calls', Len(calls) + 1, Len(calls')) IN
          /\ current_mode' # current_mode =>
                /\ current_mode' = (current_mode + 1) % Len(badge_modes)
                /\ badge_pc = "buttons"
                /\ pressed' \cap {"a", "b", "c"} # {}
                /\ pressed' \cap {"up", "down"} = {}
                /\ InitsIn(new) = {1}
                /\ new[1] = badge_modes[current_mode' + 1].init
          /\ (current_mode' = current_mode /\ badge_pc # "startup") => InitsIn(new) = {}
          /\ badge_pc = "startup" =>
                /\ InitsIn(new) = {1} /\ new[1] = badge_modes[1].init
                /\ current_mode' = 0
          /\ badge_pc = "tick" =>
                /\ new = <<badge_modes[current_mode + 1].tick>>
                /\ current_mode' = current_mode]_vars
    /\ [](\A i \in DOMAIN calls : \A m \in DOMAIN badge_modes :
            calls[i] = badge_modes[m].tick =>
                \E j \in 1..(i - 1) :
                    /\ calls[j] = badge_modes[m].init
                    /\ InitsIn(SubSeq(calls, j + 1, i - 1)) = {})

\* Three switches have gone round all modes, back to the first.
C15_Witness ==
    /\ badge_pc = "auto_brightness" /\ loops = 3 /\ current_mode = 0
    /\ calls = <<"bmode_fursona_init", "bmode_fursona_tick",
                 "bmode_qr_init", "do_nothing",
                 "bmode_status_init", "bmode_status_tick", "bmode_status_tick",
                 "bmode_fursona_init", "bmode_fursona_tick", "bmode_fursona_tick">>

\* C16 (decoder progress), as claimed: a step of the row loop that consumes
\* a whole record moves the column cursor forward.
C16_Progress ==
    [][(dec_pc = "rows" /\ dec_x < im.width /\ pos' >= pos + 2 /\ ~short_read')
          => dec_x' > dec_x]_vars

\* The pixels a sequence of records stands for.
RECURSIVE Expand(_)
Expand(recs) ==
    IF recs = <<>> THEN <<>>
    ELSE IF Len(recs) = 1 THEN SpanPixels(recs[1].count, recs[1].value, recs[1].data)
    ELSE LET half == Len(recs) \div 2
         IN  Expand(SubSeq(recs, 1, half)) \o Expand(SubSeq(recs, half + 1, Len(recs)))

\* The records written so far for the row the encoder is in.
CurrentRowRecords ==
    ParseRecords(outf, IF y = 0 THEN PAL_LEN ELSE row_ends[y], Len(outf))

\* C17 (flush ordering): with the policy on, write_span is never entered
\* with span_count = 0 and a non-empty buffer; the records written for the
\* row, then the buffered pixels, then the pending span are the pixels read
\* so far in raster order (so the buffer was written out before any run that
\* follows it); a finished row's records are the row and leave nothing buffered.
C17_FlushOrder ==
    GENERATE_UNSPANS =>
        /\ enc_pc = "row" =>
              /\ span_count = 0 => unspan = <<>>
              /\ Expand(CurrentRowRecords) \o unspan \o Uniform(span_count, span_pixel)
                    = SubSeq(im.px[y + 1], 1, x)
        /\ RowFinished =>
              /\ Expand(RowRecords(LastRow)) = im.px[LastRow]
              /\ unspan = <<>>

\* Pixels are buffered behind a run already written, with a span pending.
C17_Witness ==
    /\ GENERATE_UNSPANS /\ enc_pc = "row"
    /\ Len(unspan) = 2 /\ span_count = 1
    /\ Len(CurrentRowRecords) = 1 /\ CurrentRowRecords[1].count >= 2

\* C18 (singleton buffer as a run): no literal record has length 1 (a
\* buffer of one pixel is written as the run (1, v)); a row one pixel wide
\* is the single record (1, v); the row [5,5,5,9] is the bytes 03 05 01 09.
C18_SingletonRun ==
    RowFinished =>
        LET recs == RowRecords(LastRow)
            row == im.px[LastRow]
        IN  /\ \A i \in 1..Len(recs) : IsLiteral(recs[i]) => recs[i].value \in 2..MAX_SPAN
            /\ Expand(recs) = row
            /\ im.width = 1 =>
                  Len(recs) = 1 /\ recs[1].count = 1 /\ recs[1].value = row[1]
            /\ row = <<5, 5, 5, 9>> =>
                  SubSeq(outf, RowStart(LastRow) + 1, row_ends[LastRow]) = <<3, 5, 1, 9>>

\* The row [5,5,5,9] has been written with the policy on.
C18_Witness ==
    /\ RowFinished /\ GENERATE_UNSPANS
    /\ im.px[LastRow] = <<5, 5, 5, 9>>
    /\ Len(RowRecords(LastRow)) = 2

\* C19 (greedy maximality): in a row written with the policy on, two
\* consecutive runs have the same value only if the first has count 255, no
\* literal holds two equal adjacent values, and a literal shorter than 255
\* or a run of count 1 is the row's last record or is followed by a run of
\* count 2 or more.
C19_Greedy ==
    (GENERATE_UNSPANS /\ RowFinished) =>
        LET recs == RowRecords(LastRow) IN
        /\ \A i \in 1..(Len(recs) - 1) :
              (IsRun(recs[i]) /\ IsRun(recs[i + 1]) /\ recs[i].value = recs[i + 1].value)
                  => recs[i].count = MAX_SPAN
        /\ \A i \in 1..Len(recs) :
              IsLiteral(recs[i]) =>
                  \A j \in 1..(Len(recs[i].data) - 1) : recs[i].data[j] # recs[i].data[j + 1]
        /\ \A i \in 1..Len(recs) :
              ((IsLiteral(recs[i]) /\ recs[i].value < MAX_SPAN) \/ recs[i].count = 1)
                  => (i = Len(recs) \/ recs[i + 1].count >= 2)

\* A row whose run of count 1 is followed by a full run, which is followed
\* by a run of the same value.
C19_Witness ==
    /\ GENERATE_UNSPANS /\ RowFinished
    /\ LET recs == RowRecords(LastRow) IN
        /\ \E i \in 1..(Len(recs) - 1) : recs[i].count = 1 /\ recs[i + 1].count = MAX_SPAN
        /\ \E i \in 1..(Len(recs) - 1) :
              /\ recs[i].count = MAX_SPAN /\ IsRun(recs[i + 1])
              /\ recs[i + 1].value = recs[i].value

\* C20 (forward-only painting): on any file a decoder step paints only in
\* the current row, at columns from the cursor on, and then moves the cursor
\* forward; the row never goes back and the cursor goes back only with a new
\* row; no pixel is painted twice; when the encoder's file has been decoded
\* every pixel has been painted exactly once.
C20_ForwardOnly ==
    /\ [][dec_pc # "idle" =>
            /\ dec_y' >= dec_y
            /\ dec_y' = dec_y => dec_x' >= dec_x
            /\ painted' # painted => (dec_x' > dec_x /\ dec_y' = dec_y)
            /\ \A r \in 1..im.height : \A c \in 1..im.width :
                  painted'[r][c] # painted[r][c] => (r = dec_y + 1 /\ c > dec_x)]_vars
    /\ [](dec_pc # "idle" =>
            \A r \in 1..im.height : \A c \in 1..im.width : painted[r][c] <= 1)
    /\ []((enc_pc = "done" /\ dec_pc = "done") =>
            \A r \in 1..im.height : \A c \in 1..im.width : painted[r][c] = 1)

\* The device decoder has painted the second row of an encoded image.
C20_Witness ==
    /\ enc_pc = "done" /\ dec_pc = "done" /\ dec_kind = "device"
    /\ im.height = 2 /\ im.width = 256
    /\ painted[2][256] = 1

\* A decoder fed a file of arbitrary bytes has painted a pixel and gone on.
C20_WitnessAny ==
    /\ enc_pc = "none" /\ dec_pc = "done" /\ im.height = 2
    /\ painted[1][1] = 1 /\ painted[2][1] = 1

\* The record that starts at offset at of the file.
RecordAt(at) ==
    [count |-> outf[at + 1], value |-> outf[at + 2],
     data |-> IF outf[at + 1] = 0 THEN SubSeq(outf, at + 3, at + 2 + outf[at + 2]) ELSE <<>>,
     whole |-> TRUE]

\* C21 (decoder equivalence): on a file the encoder wrote, the device
\* decoder and the round-trip decoder go through the same positions: each
\* step of either reads exactly the next record of the current row and
\* leaves the source's pixels in the columns that record stands for, a row
\* is left exactly at its last byte, neither decoder fails, reads short or
\* paints outside a row, and both end with the whole file read and the
\* source's value at every pixel.
C21_DecoderEquivalence ==
    /\ []((enc_pc = "done" /\ dec_pc # "idle") =>
            /\ dec_pc \in {"rows", "done"} /\ ~short_read /\ ~clipped
            /\ dec_pc = "rows" =>
                  /\ pos >= RowStart(dec_y + 1) /\ pos <= row_ends[dec_y + 1]
                  /\ \A r \in 1..dec_y : canvas[r] = im.px[r]
                  /\ SubSeq(canvas[dec_y + 1], 1, dec_x) = SubSeq(im.px[dec_y + 1], 1, dec_x)
            /\ dec_pc = "done" =>
                  pos = Len(outf) /\ canvas = im.px /\ FlatPalette = pal)
    /\ [][(enc_pc = "done" /\ dec_pc = "rows") =>
            /\ pos' # pos =>
                  LET rec == RecordAt(pos) IN
                  /\ pos' = pos + 2 + Len(rec.data)
                  /\ dec_x' = dec_x + Contribution(rec) /\ dec_y' = dec_y
                  /\ SubSeq(canvas'[dec_y + 1], dec_x + 1, dec_x') =
                        SpanPixels(rec.count, rec.value, rec.data)
            /\ dec_y' # dec_y =>
                  /\ pos' = pos /\ pos = row_ends[dec_y + 1]
                  /\ dec_x = im.width /\ canvas' = canvas]_vars

\* The round-trip decoder has read a 320-pixel row of runs and literals.
C21_Witness ==
    /\ enc_pc = "done" /\ dec_pc = "done" /\ dec_kind = "roundtrip"
    /\ GENERATE_UNSPANS /\ im.width = 320 /\ RowNoisy(1)
    /\ pos = Len(outf) /\ canvas = im.px

\* The device decoder has read the same file.
C21_WitnessDevice ==
    /\ enc_pc = "done" /\ dec_pc = "done" /\ dec_kind = "device"
    /\ GENERATE_UNSPANS /\ im.width = 320 /\ RowNoisy(1)
    /\ pos = Len(outf) /\ canvas = im.px

C22_WitnessUp ==
    /\ pressed = {"up"} /\ badge_pc = "auto_brightness" /\ current_mode = 2
    /\ stats.backlight_cap = BACKLIGHT_HIGH

\* The mode functions the step called, and whether the last of them was
\* bmode_fursona_tick.
NewCalls == SubSeq(calls', Len(calls) + 1, Len(calls'))
FursonaTicked ==
    NewCalls # <<>> /\ NewCalls[Len(NewCalls)] = "bmode_fursona_tick"

\* C23 (fursona face selection): is_bright turns true only in a tick with
\* lum above REACT_BRIGHT_SET and false only in a tick with lum below
\* REACT_BRIGHT_RESET; after a tick the face is "bright" if is_bright, else
\* "lowbat" if low_battery, else "regular" or "turn"; a tick changes
\* "regular" to "turn" or back only when the countdown it decrements has
\* reached 0 or less; a tick calls draw_pri_image, with the new face's file,
\* exactly when the face it selects is not the one displayed (after
\* bmode_fursona_init none is displayed); no other step changes the face.
C23_FaceSelection ==
    [][LET face == bmode_fursona_current_face
           selected == bmode_fursona_current_face'
           fresh == InitsIn(NewCalls) # {}
       IN
       /\ (~bmode_fursona_is_bright /\ bmode_fursona_is_bright') =>
             FursonaTicked /\ stats'.lum > REACT_BRIGHT_SET
       /\ (bmode_fursona_is_bright /\ ~bmode_fursona_is_bright') =>
             FursonaTicked /\ stats'.lum < REACT_BRIGHT_RESET
       /\ selected # face => FursonaTicked
       /\ FursonaTicked =>
             /\ selected = IF bmode_fursona_is_bright' THEN "bright"
                           ELSE IF stats'.low_battery THEN "lowbat"
                           ELSE IF selected = "turn" THEN "turn" ELSE "regular"
             /\ (~fresh /\ {face, selected} = {"regular", "turn"}) =>
                   bmode_fursona_ticks_until_turn - 1 <= 0
             /\ (selected # face \/ fresh) <=> draws' = Append(draws, FaceFile(selected))
             /\ (selected = face /\ ~fresh) <=> draws' = draws]_vars

\* The face has turned and turned back.
C23_Witness ==
    /\ env = "quiet" /\ bmode_fursona_current_face = "regular"
    /\ draws = <<"fursona-regular.pri", "fursona-turn.pri", "fursona-regular.pri">>
    /\ bmode_fursona_ticks_until_turn \in RegularTicks

\* Bright has outlasted the torch, on a low battery, in a lit room.
C23_WitnessBright ==
    /\ badge_pc = "auto_brightness" /\ loops >= 2
    /\ bmode_fursona_is_bright /\ bmode_fursona_current_face = "bright"
    /\ stats.lum < REACT_BRIGHT_SET /\ stats.lum > REACT_BRIGHT_RESET
    /\ stats.low_battery

\* C24 (luminance not measured during low battery), as claimed: after a
\* fursona tick in an iteration that measured the battery low (no debug key
\* held) the face is not "bright".
C24_NoBrightWhileLow ==
    (/\ badge_pc = "auto_brightness" /\ loops >= 1
     /\ current_mode = 0 /\ stats.low_battery
     /\ measured = "battery" /\ stats.lum # U16_MAX)
        => bmode_fursona_current_face # "bright"

\* The palette p after its entries FIRST..LAST have been moved up n times.
Cycled(p, n) ==
    LET span == PALCYCLE_LAST - PALCYCLE_FIRST + 1 IN
    [i \in 1..Len(p) |->
        IF i - 1 >= PALCYCLE_FIRST /\ i - 1 <= PALCYCLE_LAST
        THEN p[PALCYCLE_FIRST + 1 + (((i - 1 - PALCYCLE_FIRST) + span - (n % span)) % span)]
        ELSE p[i]]

\* C25 (palette cycling), as claimed: after 128 ticks in a row that loaded
\* no image the palette is the one the image was loaded with.
C25_RestoresLoaded ==
    (bmode_fursona_palette # <<>> /\ cycles = 128) => bmode_fursona_palette = loaded

\* C25 (palette cycling), amended: every fursona tick, the loading one too,
\* moves entries 128..254 up by one and entry 255 to 128 and leaves entries
\* 0..127 and the length 256 alone, so the palette is the loaded one moved
\* once more than ticks have passed since the load, and 128 ticks in a row
\* that load no image bring back the palette as it was before them; the
\* palette is never indexed while None.
C25_PaletteCycling ==
    /\ [](badge_pc # "failed")
    /\ [](bmode_fursona_palette # <<>> =>
            /\ Len(bmode_fursona_palette) = 256
            /\ bmode_fursona_palette = Cycled(loaded, cycles + 1)
            /\ cycles = 128 => bmode_fursona_palette = CyclePalette(loaded))
    /\ [](bmode_fursona_palette = <<>> => bmode_fursona_current_face = "None")
    /\ [][(FursonaTicked /\ draws' = draws) =>
            /\ Len(bmode_fursona_palette') = Len(bmode_fursona_palette)
            /\ \A i \in 0..255 :
                  bmode_fursona_palette'[i + 1] =
                      IF i < 128 THEN bmode_fursona_palette[i + 1]
                      ELSE IF i = 128 THEN bmode_fursona_palette[255 + 1]
                      ELSE bmode_fursona_palette[i]]_vars

\* 128 ticks after the load the palette is back where the loading tick left
\* it, one step from the loaded one.
C25_Witness ==
    /\ cycles = 128 /\ env = "quiet"
    /\ bmode_fursona_palette = CyclePalette(loaded)
    /\ bmode_fursona_palette # loaded

====
